---- MODULE Spec2Model ----
(***************************************************************************)
(* A model of tilewindow/tiler.py: the TileWindow geometry, the Tiler      *)
(* (tile cache, buffer image, reconcile), the _TileJobMarsher job list     *)
(* with its signal queue, and the threads that call get / new_tile.        *)
(*                                                                         *)
(* Python tuples are 0-indexed, TLA+ tuples 1-indexed: window[0] of the    *)
(* source is window[1] here.  An optional bound is <<>> (None) or <<v>>.   *)
(* A tile image is identified with the coordinate it was made for; a       *)
(* PIL image is the set of <<offset, tile>> pastes it holds, with its      *)
(* width and height.                                                       *)
(***************************************************************************)
EXTENDS Integers, Sequences, FiniteSets, TLC

\* ------------------------------------------------------------------ sizes
\* Tile size of the modelled instance (constructor arguments).
tile_width == 2
tile_height == 3
\* Largest border the model sets.
MaxBorder == 2

None == <<>>
Some(v) == <<v>>
IsNone(o) == o = <<>>

Max(a, b) == IF a >= b THEN a ELSE b
Min(a, b) == IF a <= b THEN a ELSE b

\* ------------------------------------------------------- TileWindow (pure)
\* A variant that rounds towards zero (C1 must tell it from floor_div).
floor_truncates(a, d) == IF a >= 0 THEN a \div d ELSE -((-a) \div d)
\* _math.floor(a / d) for d > 0 (exact on the integers of the model).
floor_div(a, d) == a \div d

\* A variant that rounds down (C2 must tell it from ceil_div).
ceil_as_floor(a, d) == a \div d
\* _math.ceil(a / d) for d > 0.
ceil_div(a, d) == -((-a) \div d)

\* The clamping of one bound against an optional image bound.
clamp_min(v, bound) == IF ~IsNone(bound) THEN Max(v, bound[1]) ELSE v
clamp_max(v, bound) == IF ~IsNone(bound) THEN Min(v, bound[1]) ELSE v

\* TileWindow.needed_buffer_extent for window w, border b, image bounds ib.
needed_buffer_extent(w, b, ib) ==
  LET xmin == (floor_div(w[1], tile_width) - b) * tile_width
      ymin == (floor_div(w[2], tile_height) - b) * tile_height
      xmax == (ceil_div(w[3], tile_width) + b) * tile_width
      ymax == (ceil_div(w[4], tile_height) + b) * tile_height
  IN  << clamp_min(xmin, ib[1]), clamp_min(ymin, ib[2]),
         clamp_max(xmax, ib[3]), clamp_max(ymax, ib[4]) >>

\* A variant that asserts nothing (C3 must tell it from extent_accepted).
extent_unchecked(v) == TRUE
\* The assertions of the buffer_extent setter: a 4-tuple of multiples.
extent_accepted(v) ==
  /\ Len(v) = 4
  /\ v[1] % tile_width = 0
  /\ v[3] % tile_width = 0
  /\ v[2] % tile_height = 0
  /\ v[4] % tile_height = 0

\* Values a caller gives to a setter: an int, a float num / den, or a str,
\* which is the decimal text of num when den is 1 and not a number when den
\* is 0.
PyInt(k) == [kind |-> "int", num |-> k, den |-> 1]
PyFloat(n, d) == [kind |-> "float", num |-> n, den |-> d]
PyStr(k) == [kind |-> "str", num |-> k, den |-> 1]
PyText == [kind |-> "str", num |-> 0, den |-> 0]
\* int(x) raises.
int_raises(x) == x.kind = "str" /\ x.den = 0
\* int(x) when it does not raise: the fraction is dropped, towards zero.
int_of(x) ==
  IF x.num >= 0 THEN x.num \div x.den ELSE -((-x.num) \div x.den)

\* tuple(self._int_or_none(x) for x in v) raises.
int_or_none_raises(v) ==
  \E i \in DOMAIN v : ~IsNone(v[i]) /\ int_raises(v[i][1])
\* tuple(self._int_or_none(x) for x in v) when it does not raise.
int_or_none(v) ==
  [i \in DOMAIN v |-> IF IsNone(v[i]) THEN None ELSE Some(int_of(v[i][1]))]

\* A variant that asserts the length only (C28 must tell it from
\* bounds_accepted).
bounds_accepted_any_four(v) == Len(v) = 4
\* The assertions of the image_bounds setter.
bounds_accepted(v) ==
  /\ Len(v) = 4
  /\ IsNone(v[1]) \/ v[1][1] % tile_width = 0
  /\ IsNone(v[2]) \/ v[2][1] % tile_height = 0
  /\ IsNone(v[3]) \/ v[3][1] % tile_width = 0
  /\ IsNone(v[4]) \/ v[4][1] % tile_height = 0

\* A variant that asserts v >= 0 (C30 must tell it from border_accepted).
border_accepted_zero(v) == v >= 0
\* The assertion of the border setter.
border_accepted(v) == v > 0


\* ------------------------------------------------------------ Tiler (pure)
\* need_tile_space of Tiler._update: an extent in tile coordinates.
tile_space(e) ==
  << e[1] \div tile_width, e[2] \div tile_height,
     e[3] \div tile_width, e[4] \div tile_height >>

\* The test of the eviction loop: is coordinate c inside tile range ts?
in_range(c, ts) ==
  /\ c[1] >= ts[1] /\ c[1] < ts[3]
  /\ c[2] >= ts[2] /\ c[2] < ts[4]

\* len(range(n)).
range_len(n) == IF n > 0 THEN n ELSE 0

\* The coordinates the two nested loops of _update visit, in their order
\* (rows outside, columns inside).
scan_order(ts) ==
  LET W == range_len(ts[3] - ts[1])
      H == range_len(ts[4] - ts[2])
  IN  [i \in 1..(W * H) |-> << ts[1] + ((i - 1) % W), ts[2] + ((i - 1) \div W) >>]

\* A variant that stops one column early (C15 must tell it from scan_missing).
scan_short(ts, cache) ==
  LET absent(c) == c \notin DOMAIN cache
  IN  SelectSeq(scan_order(<< ts[1], ts[2], ts[3] - 1, ts[4] >>), absent)
\* tiles_needed of _update: the visited coordinates the cache does not hold.
scan_missing(ts, cache) ==
  LET absent(c) == c \notin DOMAIN cache
  IN  SelectSeq(scan_order(ts), absent)

\* PIL.Image.new("RGB", (w, h)).
blank_image(w, h) == [exists |-> TRUE, w |-> w, h |-> h, pix |-> {}]

\* A variant that pastes nothing (C12 must tell it from paste).
paste_nowhere(img, tile, off) == img
\* Image.paste(tile, (xdest, ydest)): a paste outside the image is clipped away.
paste(img, tile, off) ==
  IF /\ off[1] >= 0 /\ off[1] + tile_width <= img.w
     /\ off[2] >= 0 /\ off[2] + tile_height <= img.h
  THEN [img EXCEPT !.pix = {p \in @ : p[1] # off} \cup {<<off, tile>>}]
  ELSE img

\* A variant that sizes the image without max(0, ...) (C32 must tell it from
\* scan_image).
scan_image_unclamped(need, cache) ==
  LET ts == tile_space(need)
      hit == {c \in DOMAIN cache : in_range(c, ts)}
  IN  [exists |-> TRUE, w |-> need[3] - need[1], h |-> need[4] - need[2],
       pix |-> {<< <<(c[1] - ts[1]) * tile_width, (c[2] - ts[2]) * tile_height>>, cache[c] >> : c \in hit}]

\* new_image of _update: the blank image of the needed size with every cached
\* tile of the range pasted at its offset.
scan_image(need, cache) ==
  LET ts == tile_space(need)
      w == Max(0, need[3] - need[1])
      h == Max(0, need[4] - need[2])
      hit == {c \in DOMAIN cache : in_range(c, ts)}
  IN  [exists |-> TRUE, w |-> w, h |-> h,
       pix |-> {<< <<(c[1] - ts[1]) * tile_width, (c[2] - ts[2]) * tile_height>>, cache[c] >> : c \in hit}]

\* A variant that deletes nothing (C5 and C6 must tell it from evict).
evict_none(cache, ts) == cache
\* The eviction loop of _update.
evict(cache, ts) ==
  [c \in {k \in DOMAIN cache : in_range(k, ts)} |-> cache[c]]

\* self._tiles[(tx, ty)] = tile.
store(cache, c, tile) ==
  [k \in DOMAIN cache \cup {c} |-> IF k = c THEN tile ELSE cache[k]]

\* A variant that takes every tile as lying in the extent (C13 must tell it
\* from tile_in_extent).
tile_in_extent_always(c, e) == TRUE
\* The test of new_tile: does the tile of coordinate c lie in extent e?
tile_in_extent(c, e) ==
  LET x == c[1] * tile_width
      y == c[2] * tile_height
  IN  /\ x - e[1] >= 0 /\ y - e[2] >= 0
      /\ x + tile_width <= e[3]
      /\ y + tile_height <= e[4]

\* The offset _redraw gives the redrawer: the window's corner in the buffer.
redraw_offset_of_window(w, be) == << w[1], w[2] >>
redraw_offset(w, be) == << w[1] - be[1], w[2] - be[2] >>

\* The tile the provider makes for coordinate c.
tile_of(c) == c

\* A variant that keeps the old list in front (C8 must tell it from
\* set_needed_tiles).
set_needed_tiles_extends(needed, tile_list) == needed \o tile_list
\* self._needed_tiles = tile_list: the new list takes the place of the old.
set_needed_tiles(needed, tile_list) == tile_list

\* A variant that leaves the element in the list (C9 must tell it from
\* pop_rest).
pop_keeps(list) == list
\* list.pop(): the element returned and the list left.
pop_rest(list) == SubSeq(list, 1, Len(list) - 1)
pop_item(list) == list[Len(list)]


\* ------------------------------------------------------------------ state
VARIABLES
  window,         \* TileWindow._window
  border,         \* TileWindow._border
  image_bounds,   \* TileWindow._bounds
  buffer_extent,  \* TileWindow._buffer
  raised,         \* what the step just taken raised on the GUI thread
  redrawer,       \* Tiler._redrawer
  notified,       \* the call the step just taken made on the redrawer
  need,           \* the value last read from needed_buffer_extent
  tiles,          \* Tiler._tiles: coordinate -> tile
  image,          \* Tiler._image
  needed_tiles,   \* _TileJobMarsher._needed_tiles
  job_queue,      \* _TileJobMarsher._job_queue: the number of signals in it
  gui,            \* the GUI thread inside update: where it is, its locals
  cons,           \* the threads that call get: where each is, its locals
  installed,      \* history: the list the last set_needed_tiles installed
  delivered,      \* history: what get returned since then, in order
  superseded,     \* history: what was pending in the list it replaced only
  reconciled,     \* history: the extent the last reconcile installed
  late,           \* history: deposits since then that lay outside it
  waiting_image,  \* TileImage._waiting_image: the mailbox slot
  shown,          \* the image the presentation (image.Image) was last given
  polled,         \* the local image of TileImage._update
  pending,        \* the local new_image of each worker inside new_tile
  cancel          \* Pooler._cancel (and TileImage._done, set with it)

vars == << window, border, image_bounds, buffer_extent, raised, redrawer,
           notified, need, tiles,
           image, needed_tiles, job_queue, gui, cons, installed, delivered,
           superseded, reconciled, late,
           waiting_image, shown, polled, pending, cancel >>

geometry == << window, border, image_bounds, buffer_extent >>
marsher == << needed_tiles, job_queue >>
history == << installed, delivered, superseded, reconciled, late >>
tileimage == << waiting_image, shown, polled, pending, cancel >>

\* A step that makes no call on the redrawer (and does not set another one),
\* and so leaves what a TileImage keeps behind its redrawer alone.
silent == notified' = None /\ UNCHANGED << redrawer, tileimage >>

\* ------------------------------------------------------ image references
\* A reference to a PIL image held outside the Tiler: to the image object that
\* is Tiler._image now (live; its pixels are those of image), or to an object
\* a reconcile has replaced (img holds its pixels, which no one changes any
\* more).  For the presentation, img is the copy PhotoImage made.
LiveRef == [live |-> TRUE, img |-> [exists |-> TRUE, w |-> 0, h |-> 0, pix |-> {}]]
\* The reference r once self._image = new_image has replaced the object old.
replaced(r, old) ==
  IF IsNone(r) THEN None
  ELSE IF r[1].live THEN Some([live |-> FALSE, img |-> old]) ELSE r
\* The pixels a reference gives when it is read while Tiler._image is img.
deref(r, img) == IF r.live THEN img ELSE r.img

\* ----------------------------------------------------------------- bounds
\* Threads calling get on a Tiler, and on a bare _TileJobMarsher.
NumWorkers == 1
NumConsumers == 2
\* Signals the signal queue holds at most in the model.
MaxSignals == 2

Consumers == 1..NumConsumers
Workers == 1..NumWorkers

\* Tile coordinates a thread may deposit on its own (as the tests do).
Coords == {<<0, 0>>, <<2, 0>>}

Timeouts == {"none", "zero", "pos"}
\* The finite ones, which Pooler.run and the tests give to Tiler.get.
FiniteTimeouts == {"zero", "pos"}

IdleGui == [pc |-> "idle", new_image |-> blank_image(0, 0), tiles_needed |-> <<>>]
IdleCon == [pc |-> "idle", timeout |-> "none", expired |-> FALSE, coord |-> None, fresh |-> FALSE]


\* ------------------------------------------------------------- the inputs
\* Arguments of update.
Locations == {<<dx, 0>> : dx \in {-(3 * tile_width), -tile_width, tile_width, 2 * tile_width}}
Sizes == {Some(<<1, 1>>)}
\* Arguments of move_tile_view_to.
MoveTargets == {<<0, 0>>, <<2 * tile_width + 1, 1>>}
\* Values the buffer_extent setter must refuse (as the tests give it).
BadExtents == { <<0, tile_height, 0, tile_height + 1>>, <<0, 0, 0, 0, 0>> }
\* Image bounds a Tiler is built with: three tiles in a row, or one row that
\* ends after the tile of column 0 and has no bound on the left.
TilerImageBounds ==
  { << Some(0), Some(0), Some(3 * tile_width), Some(tile_height) >>,
    << None, Some(0), Some(tile_width), Some(tile_height) >> }

\* The window positions the model follows.
InBox(w) ==
  /\ w[1] >= (IF IsNone(image_bounds[1]) THEN -tile_width ELSE -(3 * tile_width))
  /\ w[1] < 3 * tile_width
  /\ w[2] >= 0 /\ w[2] < tile_height

\* ------------------------------------------------------ TileWindow setters
\* window.setter: any 4-tuple of integers is taken.
SetWindow(v) ==
  /\ silent
  /\ gui.pc = "idle"
  /\ IF Len(v) = 4
     THEN window' = v /\ raised' = "none" /\ need' = None
     ELSE raised' = "ValueError" /\ UNCHANGED << window, need >>
  /\ UNCHANGED << border, image_bounds, buffer_extent, tiles, image, marsher,
                  gui, cons, history >>

\* border.setter: int(v), then the assertion.
SetBorder(v) ==
  /\ silent
  /\ gui.pc = "idle"
  /\ IF ~int_raises(v) /\ border_accepted(int_of(v))
     THEN border' = int_of(v) /\ raised' = "none" /\ need' = None
     ELSE raised' = "ValueError" /\ UNCHANGED << border, need >>
  /\ UNCHANGED << window, image_bounds, buffer_extent, tiles, image, marsher,
                  gui, cons, history >>

\* image_bounds.setter: the conversion of each bound, then the assertions.
SetImageBounds(v) ==
  /\ silent
  /\ gui.pc = "idle"
  /\ IF ~int_or_none_raises(v) /\ bounds_accepted(int_or_none(v))
     THEN image_bounds' = int_or_none(v) /\ raised' = "none" /\ need' = None
     ELSE raised' = "ValueError" /\ UNCHANGED << image_bounds, need >>
  /\ UNCHANGED << window, border, buffer_extent, tiles, image, marsher,
                  gui, cons, history >>

\* buffer_extent.setter.
SetBufferExtent(v) ==
  /\ silent
  /\ gui.pc = "idle"
  /\ IF extent_accepted(v)
     THEN buffer_extent' = v /\ raised' = "none"
     ELSE raised' = "ValueError" /\ UNCHANGED buffer_extent
  /\ UNCHANGED << window, border, image_bounds, need, tiles, image, marsher,
                  gui, cons, history >>

\* A read of the needed_buffer_extent property.
ReadNeeded ==
  /\ silent
  /\ need' = needed_buffer_extent(window, border, image_bounds)
  /\ raised' = "none"
  /\ UNCHANGED << geometry, tiles, image, marsher, gui, cons, history >>

\* ------------------------------------------------------------------ Tiler
\* A variant that is content when the buffer extent covers the window (C4 must
\* tell it from update_scan).
update_scan_lazy(w, be) ==
  LET n == needed_buffer_extent(w, border, image_bounds)
  IN  /\ need' = n
      /\ gui' = IF be[1] <= w[1] /\ be[2] <= w[2] /\ be[3] >= w[3] /\ be[4] >= w[4]
                THEN IdleGui
                ELSE [pc |-> "install",
                      new_image |-> scan_image(n, tiles),
                      tiles_needed |-> scan_missing(tile_space(n), tiles)]

\* A variant without the early return (C18 and C19 must tell it from
\* update_scan).
update_scan_always(w, be) ==
  LET n == needed_buffer_extent(w, border, image_bounds)
  IN  /\ need' = n
      /\ gui' = [pc |-> "install",
                 new_image |-> scan_image(n, tiles),
                 tiles_needed |-> scan_missing(tile_space(n), tiles)]

\* Tiler._update before its lock, with window w and buffer extent be: the
\* comparison with the buffer extent and the scan of the cache.  The scan reads
\* the cache once per coordinate; a deposit that falls between two reads acts
\* like one before the scan (coordinate not read yet) or one after it
\* (coordinate already read), and deposits of different coordinates commute.
update_scan(w, be) ==
  LET n == needed_buffer_extent(w, border, image_bounds)
  IN  /\ need' = n
      /\ gui' = IF n = be
                THEN IdleGui
                ELSE [pc |-> "install",
                      new_image |-> scan_image(n, tiles),
                      tiles_needed |-> scan_missing(tile_space(n), tiles)]

\* A variant that takes the location as a position in the whole image (C21
\* and C22 must tell it from update_window).
update_window_absolute(be, location, size, w) ==
  LET sz == IF IsNone(size) THEN << w[3] - w[1], w[4] - w[2] >> ELSE size[1]
  IN  << location[1], location[2], location[1] + sz[1], location[2] + sz[2] >>

\* The window Tiler.update(location, size) sets, from buffer extent be and the
\* window w it finds.
update_window(be, location, size, w) ==
  LET x == be[1] + location[1]
      y == be[2] + location[2]
      sz == IF IsNone(size) THEN << w[3] - w[1], w[4] - w[2] >> ELSE size[1]
  IN  << x, y, x + sz[1], y + sz[2] >>

\* Tiler.update(location, size), up to the lock of _update.
Update(location, size) ==
  /\ silent
  /\ gui.pc = "idle"
  /\ LET w == update_window(buffer_extent, location, size, window)
     IN  /\ InBox(w)
         /\ window' = w
         /\ update_scan(w, buffer_extent)
  /\ raised' = "none"
  /\ UNCHANGED << border, image_bounds, buffer_extent, tiles, image, marsher,
                  cons, history >>

\* Tiler._update inside its lock, up to and including the assignment of
\* set_needed_tiles.
Install ==
  /\ notified' = None
  /\ gui.pc = "install"
  /\ job_queue < MaxSignals
  /\ tiles' = evict(tiles, tile_space(need))
  /\ image' = gui.new_image
  /\ waiting_image' = replaced(waiting_image, image)
  /\ pending' = [w \in DOMAIN pending |-> replaced(pending[w], image)]
  /\ shown' = IF IsNone(shown) THEN None
              ELSE Some([shown[1] EXCEPT !.live = FALSE])
  /\ UNCHANGED << redrawer, polled, cancel >>
  /\ IF extent_accepted(need)
     THEN /\ buffer_extent' = need
          /\ needed_tiles' = set_needed_tiles(needed_tiles, gui.tiles_needed)
          /\ gui' = [IdleGui EXCEPT !.pc = "put"]
          /\ installed' = gui.tiles_needed
          /\ delivered' = <<>>
          /\ superseded' = {needed_tiles[i] : i \in DOMAIN needed_tiles}
                             \ {gui.tiles_needed[i] : i \in DOMAIN gui.tiles_needed}
          /\ reconciled' = need
          /\ late' = {}
          /\ cons' = [c \in Consumers |-> [cons[c] EXCEPT !.fresh = FALSE]]
          /\ raised' = "none"
     ELSE /\ raised' = "ValueError"
          /\ gui' = IdleGui
          /\ UNCHANGED << buffer_extent, needed_tiles, cons, history >>
  /\ UNCHANGED << window, border, image_bounds, need, job_queue >>

\* A variant of set_needed_tiles that puts no signal (C38 must tell it from
\* Put).
PutNoSignal ==
  /\ silent
  /\ gui.pc = "put"
  /\ gui' = IdleGui
  /\ raised' = "none"
  /\ UNCHANGED << geometry, need, tiles, image, marsher, cons, history >>

\* The put of set_needed_tiles, the end of the lock, and _redraw.
Put ==
  /\ gui.pc = "put"
  /\ job_queue' = job_queue + 1
  /\ gui' = IdleGui
  /\ notified' = IF IsNone(redrawer)
                 THEN None
                 ELSE Some([call |-> "redraw", image |-> image,
                            offset |-> Some(redraw_offset(window, buffer_extent))])
  /\ IF redrawer = Some("TileImage")
     THEN /\ waiting_image' = None
          /\ shown' = Some([live |-> TRUE, img |-> image])
     ELSE UNCHANGED << waiting_image, shown >>
  /\ raised' = "none"
  /\ UNCHANGED << redrawer, polled, pending, cancel >>
  /\ UNCHANGED << geometry, need, tiles, image, needed_tiles, cons,
                  history >>

\* TileImage.move_tile_view_to(x, y), up to the lock of _update.
MoveTileViewTo(x, y) ==
  /\ silent
  /\ gui.pc = "idle"
  /\ LET buffer_width == buffer_extent[3] - buffer_extent[1]
         buffer_height == buffer_extent[4] - buffer_extent[2]
         xx == floor_div(x, tile_width) * tile_width
         yy == floor_div(y, tile_height) * tile_height
         shifted == << xx, yy, xx + buffer_width, yy + buffer_height >>
         w == update_window(shifted, << x - xx, y - yy >>, None, window)
     IN  IF extent_accepted(shifted)
         THEN /\ InBox(w)
              /\ buffer_extent' = shifted
              /\ window' = w
              /\ update_scan(w, shifted)
              /\ raised' = "none"
         ELSE /\ raised' = "ValueError"
              /\ UNCHANGED << buffer_extent, window, need, gui >>
  /\ UNCHANGED << border, image_bounds, tiles, image, marsher, cons, history >>

\* Tiler.new_tile(tx, ty, tile) with a tile, for c = (tx, ty): what it does to
\* the cache and the image under the lock.
new_tile_locked(c) ==
  /\ gui.pc # "put"
  /\ tiles' = store(tiles, c, tile_of(c))
  /\ image' = IF tile_in_extent(c, buffer_extent)
              THEN paste(image, tile_of(c),
                         << c[1] * tile_width - buffer_extent[1],
                            c[2] * tile_height - buffer_extent[2] >>)
              ELSE image
  /\ late' = IF in_range(c, tile_space(reconciled)) THEN late ELSE late \cup {c}

\* Tiler.new_tile as one step: the lock, then the call of new_image at once.
new_tile(c) ==
  /\ new_tile_locked(c)
  /\ IF ~tile_in_extent(c, buffer_extent)
     THEN notified' = None /\ raised' = "none"
     ELSE IF IsNone(redrawer)
     THEN notified' = None /\ raised' = "AttributeError"
     ELSE /\ notified' = Some([call |-> "new_image", image |-> image',
                               offset |-> None])
          /\ raised' = "none"
  /\ waiting_image' = IF tile_in_extent(c, buffer_extent)
                         /\ redrawer = Some("TileImage")
                      THEN Some(LiveRef) ELSE waiting_image
  /\ UNCHANGED << redrawer, shown, polled, pending, cancel >>

\* A variant of new_tile that takes the coordinate off the job list (C39 must
\* tell it from NewTile).
NewTileDropsJob(c) ==
  /\ new_tile(c)
  /\ needed_tiles' = SelectSeq(needed_tiles, LAMBDA d : d # c)
  /\ UNCHANGED << geometry, need, job_queue, gui, cons, installed,
                  delivered, superseded, reconciled >>

\* A call of new_tile by a thread that holds no job (as the tests do).
NewTile(c) ==
  /\ new_tile(c)
  /\ UNCHANGED << geometry, need, marsher, gui, cons, installed,
                  delivered, superseded, reconciled >>


\* -------------------------------------------------------- _TileJobMarsher
\* expired is the outcome of the next test clock() < now + timeout of the
\* thread: FALSE when get is called (TRUE at once with a timeout of zero), and
\* either one after the thread has been blocked on the signal queue.

\* The call of get(timeout): now = clock().
GetCall(c, t) ==
  /\ silent
  /\ cons[c].pc \in {"idle", "empty"}
  /\ cons' = [cons EXCEPT ![c] = [pc |-> "loop", timeout |-> t,
                                  expired |-> (t = "zero"),
                                  coord |-> None, fresh |-> TRUE]]
  /\ raised' = "none"
  /\ UNCHANGED << geometry, need, tiles, image, marsher, gui, history >>

\* One pass of the while loop of get, up to the end of its lock: the test of
\* the clock, and the test and pop of the list.
GetLoop(c) ==
  /\ silent
  /\ cons[c].pc = "loop"
  /\ IF cons[c].timeout # "none" /\ cons[c].expired
     THEN /\ cons' = [cons EXCEPT ![c].pc = "empty", ![c].timeout = "none",
                                  ![c].expired = FALSE]
          /\ UNCHANGED << needed_tiles, delivered >>
     ELSE IF Len(needed_tiles) > 0
     THEN /\ cons' = [cons EXCEPT ![c] = [IdleCon EXCEPT !.pc = "got",
                                     !.coord = Some(pop_item(needed_tiles))]]
          /\ needed_tiles' = pop_rest(needed_tiles)
          /\ delivered' = Append(delivered, pop_item(needed_tiles))
     ELSE /\ cons' = [cons EXCEPT ![c].pc = "wait"]
          /\ UNCHANGED << needed_tiles, delivered >>
  /\ raised' = "none"
  /\ UNCHANGED << geometry, need, tiles, image, job_queue, gui,
                  installed, superseded, reconciled, late >>

\* The call of _job_queue.get(timeout=timeout): a signal already there is
\* taken at once, otherwise the thread blocks.
GetWait(c) ==
  /\ silent
  /\ cons[c].pc = "wait"
  /\ IF job_queue > 0
     THEN /\ job_queue' = job_queue - 1
          /\ cons' = [cons EXCEPT ![c].pc = "loop"]
     ELSE /\ cons' = [cons EXCEPT ![c].pc = "blocked"]
          /\ UNCHANGED job_queue
  /\ raised' = "none"
  /\ UNCHANGED << geometry, need, tiles, image, needed_tiles, gui,
                  history >>

\* A blocked _job_queue.get is woken by a signal, some time after it blocked.
GetWake(c) ==
  /\ silent
  /\ cons[c].pc = "blocked"
  /\ job_queue > 0
  /\ job_queue' = job_queue - 1
  /\ \E e \in BOOLEAN :
       /\ cons[c].timeout = "none" => ~e
       /\ cons' = [cons EXCEPT ![c].pc = "loop", ![c].expired = e]
  /\ raised' = "none"
  /\ UNCHANGED << geometry, need, tiles, image, needed_tiles, gui,
                  history >>

\* A variant without the timeout of _job_queue.get (C10 must tell it from
\* GetTimeout).
GetBlocksForever(c) == FALSE /\ UNCHANGED vars
\* A blocked _job_queue.get(timeout=timeout) raises queue.Empty.
GetTimeout(c) ==
  /\ silent
  /\ cons[c].pc = "blocked"
  /\ cons[c].timeout # "none"
  /\ job_queue = 0
  /\ cons' = [cons EXCEPT ![c].pc = "empty", ![c].timeout = "none",
                          ![c].expired = FALSE]
  /\ raised' = "none"
  /\ UNCHANGED << geometry, need, tiles, image, marsher, gui, history >>

\* Pooler.run after get: the provider made the tile and new_tile is called.
Deposit(c) ==
  /\ cons[c].pc = "got"
  /\ new_tile(cons[c].coord[1])
  /\ cons' = [cons EXCEPT ![c] = IdleCon]
  /\ UNCHANGED << geometry, need, marsher, gui, installed, delivered,
                  superseded, reconciled >>

\* A variant without the test for a missing tile: the failed fetch is stored
\* like a tile (C14 must tell it from FetchFail).
FetchFailStores(c) == Deposit(c)

\* A variant in which the failure of the provider ends the thread that called
\* it (C25 must tell it from FetchFail).
FetchFailStops(c) ==
  /\ silent
  /\ cons[c].pc = "got"
  /\ cons' = [cons EXCEPT ![c] = [IdleCon EXCEPT !.pc = "exited"]]
  /\ raised' = "none"
  /\ UNCHANGED << geometry, need, tiles, image, marsher, gui, history >>

\* After get: the provider raised or gave None (new_tile returns at once), or
\* the caller only collects coordinates (as the tests do).
FetchFail(c) ==
  /\ silent
  /\ cons[c].pc = "got"
  /\ cons' = [cons EXCEPT ![c] = IdleCon]
  /\ raised' = "none"
  /\ UNCHANGED << geometry, need, tiles, image, marsher, gui, history >>

\* _TileJobMarsher.set_needed_tiles(tile_list) on a bare marsher, up to the
\* end of its lock.
SetNeededTiles(tile_list) ==
  /\ silent
  /\ gui.pc = "idle"
  /\ job_queue < MaxSignals
  /\ needed_tiles' = set_needed_tiles(needed_tiles, tile_list)
  /\ gui' = [IdleGui EXCEPT !.pc = "put"]
  /\ installed' = tile_list
  /\ delivered' = <<>>
  /\ superseded' = {needed_tiles[i] : i \in DOMAIN needed_tiles}
                     \ {tile_list[i] : i \in DOMAIN tile_list}
  /\ cons' = [c \in Consumers |-> [cons[c] EXCEPT !.fresh = FALSE]]
  /\ raised' = "none"
  /\ UNCHANGED << geometry, need, tiles, image, job_queue, reconciled,
                  late >>

\* ---------------------------------------------------- the specification
\* Tiler.__init__ (with image_bounds given by keyword) and the setting of its
\* redrawer, as TileImage.__init__ does; no thread started.
Init ==
  /\ window = <<0, 0, 0, 0>>
  /\ border = 1
  /\ image_bounds \in TilerImageBounds
  /\ buffer_extent = <<0, 0, 0, 0>>
  /\ raised = "none"
  /\ redrawer = Some("Redrawer")
  /\ notified = None
  /\ need = None
  /\ tiles = <<>>
  /\ image = [exists |-> FALSE, w |-> 0, h |-> 0, pix |-> {}]
  /\ needed_tiles = <<>>
  /\ job_queue = 0
  /\ gui = IdleGui
  /\ cons = [c \in Consumers |-> IdleCon]
  /\ installed = <<>>
  /\ delivered = <<>>
  /\ superseded = {}
  /\ reconciled = <<0, 0, 0, 0>>
  /\ late = {}
  /\ waiting_image = None
  /\ shown = None
  /\ polled = None
  /\ pending = [w \in Workers |-> None]
  /\ cancel = FALSE

Next ==
  \/ \E l \in Locations, s \in Sizes : Update(l, s)
  \/ Install
  \/ Put
  \/ \E m \in MoveTargets : MoveTileViewTo(m[1], m[2])
  \/ \E v \in BadExtents : SetBufferExtent(v)
  \/ \E c \in Coords : NewTile(c)
  \/ \E c \in Workers, t \in FiniteTimeouts : GetCall(c, t)
  \/ \E c \in Workers : GetLoop(c)
  \/ \E c \in Workers : GetWait(c)
  \/ \E c \in Workers : GetWake(c)
  \/ \E c \in Workers : GetTimeout(c)
  \/ \E c \in Workers : Deposit(c)
  \/ \E c \in Workers : FetchFail(c)

Spec == Init /\ [][Next]_vars


\* ------------------------------------- the TileWindow class on its own
\* Values given to the setters, the refused ones among them.
WindowsX == {<<x, x + w>> : x \in {-(tile_width + 1), -1, 0, tile_width},
                            w \in {0, 1, tile_width + 1}}
WindowsY == {<<y, y + h>> : y \in {-(tile_height + 1), 0, 1},
                            h \in {0, tile_height + 1}}
WindowAttempts ==
  {<<x[1], y[1], x[2], y[2]>> : x \in WindowsX, y \in WindowsY} \cup {<<0, 0, 1>>}
\* Values given to the border setter: ints from -1 up, floats with a half,
\* the text of an int, and text that is no number.
BorderAttempts ==
  {PyInt(k) : k \in -1..MaxBorder}
    \cup {PyFloat(2 * k + 1, 2) : k \in -1..MaxBorder - 1}
    \cup {PyStr(MaxBorder), PyText}
\* A bound given as an int.
IntBound(k) == Some(PyInt(k))
\* Tuples given to the image_bounds setter: bounds on the tile grid or None
\* (some with min >= max), a bound off the grid, a float, text, and tuples
\* that have not four items.
BoundsAttempts ==
  {<<x0, y0, x1, y1>> :
       x0 \in {None, IntBound(0), IntBound(2 * tile_width)},
       y0 \in {None, IntBound(0)},
       x1 \in {None, IntBound(tile_width)},
       y1 \in {None, IntBound(2 * tile_height)}}
    \cup { <<IntBound(0), IntBound(0), IntBound(tile_width + 1),
             IntBound(tile_height)>>,
           <<IntBound(0), IntBound(1), IntBound(tile_width),
             IntBound(tile_height)>>,
           <<IntBound(0), IntBound(0),
             Some(PyFloat(2 * tile_width + 1, 2)), IntBound(tile_height)>>,
           <<IntBound(0), IntBound(0), Some(PyText), IntBound(tile_height)>>,
           <<IntBound(0), IntBound(0), IntBound(tile_width)>>,
           <<IntBound(0), IntBound(0), IntBound(tile_width),
             IntBound(tile_height), IntBound(0)>> }
ExtentAttempts ==
  BadExtents \cup { <<0, 0, 0, 0>>, <<-tile_width, -2 * tile_height, tile_width, tile_height>> }

\* TileWindow.__init__.
TileWindowInit ==
  /\ window = <<0, 0, tile_width, tile_height>>
  /\ border = 1
  /\ image_bounds = <<None, None, None, None>>
  /\ buffer_extent = <<0, 0, 0, 0>>
  /\ raised = "none"
  /\ redrawer = None
  /\ notified = None
  /\ need = None
  /\ tiles = <<>>
  /\ image = [exists |-> FALSE, w |-> 0, h |-> 0, pix |-> {}]
  /\ needed_tiles = <<>>
  /\ job_queue = 0
  /\ gui = IdleGui
  /\ cons = [c \in Consumers |-> IdleCon]
  /\ installed = <<>>
  /\ delivered = <<>>
  /\ superseded = {}
  /\ reconciled = <<0, 0, 0, 0>>
  /\ late = {}
  /\ waiting_image = None
  /\ shown = None
  /\ polled = None
  /\ pending = [w \in Workers |-> None]
  /\ cancel = FALSE

TileWindowNext ==
  \/ \E v \in WindowAttempts : SetWindow(v)
  \/ \E v \in BorderAttempts : SetBorder(v)
  \/ \E v \in BoundsAttempts : SetImageBounds(v)
  \/ \E v \in ExtentAttempts : SetBufferExtent(v)
  \/ ReadNeeded

TileWindowSpec == TileWindowInit /\ [][TileWindowNext]_vars

\* --------------------------------- the _TileJobMarsher class on its own
\* Lists given to set_needed_tiles: no coordinate twice, as _update builds them.
JobCoords == {<<0, 0>>, <<1, 0>>}
JobLists ==
  {<<>>} \cup {<<a>> : a \in JobCoords}
         \cup {l \in {<<a, b>> : a \in JobCoords, b \in JobCoords} : l[1] # l[2]}

\* _TileJobMarsher.__init__, no thread started.
MarsherInit ==
  /\ window = <<0, 0, 0, 0>>
  /\ border = 1
  /\ image_bounds = <<None, None, None, None>>
  /\ buffer_extent = <<0, 0, 0, 0>>
  /\ raised = "none"
  /\ redrawer = None
  /\ notified = None
  /\ need = None
  /\ tiles = <<>>
  /\ image = [exists |-> FALSE, w |-> 0, h |-> 0, pix |-> {}]
  /\ needed_tiles = <<>>
  /\ job_queue = 0
  /\ gui = IdleGui
  /\ cons = [c \in Consumers |-> IdleCon]
  /\ installed = <<>>
  /\ delivered = <<>>
  /\ superseded = {}
  /\ reconciled = <<0, 0, 0, 0>>
  /\ late = {}
  /\ waiting_image = None
  /\ shown = None
  /\ polled = None
  /\ pending = [w \in Workers |-> None]
  /\ cancel = FALSE

MarsherNext ==
  \/ \E l \in JobLists : SetNeededTiles(l)
  \/ Put
  \/ \E c \in Consumers, t \in Timeouts : GetCall(c, t)
  \/ \E c \in Consumers : GetLoop(c)
  \/ \E c \in Consumers : GetWait(c)
  \/ \E c \in Consumers : GetWake(c)
  \/ \E c \in Consumers : GetTimeout(c)
  \/ \E c \in Consumers : FetchFail(c)

MarsherSpec == MarsherInit /\ [][MarsherNext]_vars

\* A thread inside get runs on: it is scheduled, and a blocked
\* _job_queue.get(timeout=timeout) returns or raises when its time is over.
GetRuns(c) == GetLoop(c) \/ GetWait(c) \/ GetWake(c) \/ GetTimeout(c)
\* So does the thread inside set_needed_tiles: after the assignment it puts.
MarsherFairSpec ==
  MarsherSpec /\ WF_vars(Put) /\ \A c \in Consumers : WF_vars(GetRuns(c))

\* ------------------------------------------------------------- TileImage
\* The size of the first update of TileImage.__init__, (100, 100): less than
\* one tile of the sizes the demos use.
InitialSize == <<1, 1>>

\* Pooler.run at the head of its loop, the flag not set: get(timeout=0.1).
PoolerGet(w) ==
  /\ ~cancel
  /\ GetCall(w, "pos")

\* A variant that never leaves the loop (C27 must tell it from PoolerExit).
PoolerStays(w) == FALSE /\ UNCHANGED vars

\* Pooler.run at the head of its loop, the flag set: run returns.
PoolerExit(w) ==
  /\ silent
  /\ cancel
  /\ cons[w].pc \in {"idle", "empty"}
  /\ cons' = [cons EXCEPT ![w] = [IdleCon EXCEPT !.pc = "exited"]]
  /\ raised' = "none"
  /\ UNCHANGED << geometry, need, tiles, image, marsher, gui, history >>

\* The provider has returned a tile: new_tile up to the end of its lock.
PasteTile(w) ==
  /\ cons[w].pc = "got"
  /\ new_tile_locked(cons[w].coord[1])
  /\ IF tile_in_extent(cons[w].coord[1], buffer_extent)
     THEN /\ cons' = [cons EXCEPT ![w].pc = "notify"]
          /\ pending' = [pending EXCEPT ![w] = Some(LiveRef)]
     ELSE /\ cons' = [cons EXCEPT ![w] = IdleCon]
          /\ UNCHANGED pending
  /\ notified' = None
  /\ raised' = "none"
  /\ UNCHANGED << redrawer, waiting_image, shown, polled, cancel >>
  /\ UNCHANGED << geometry, need, marsher, gui, installed, delivered,
                  superseded, reconciled >>

\* A variant in which a delivery keeps an image that waits (C23 must tell it
\* from deliver).
deliver_keeps(slot, r) == IF IsNone(slot) THEN Some(r) ELSE slot
\* TileImage._new_image(image): the slot after the delivery of reference r.
deliver(slot, r) == Some(r)

\* new_tile after its lock: self.redrawer.new_image(new_image), which for the
\* Redrawer of a TileImage is _new_image.
NotifyNewImage(w) ==
  /\ cons[w].pc = "notify"
  /\ notified' = Some([call |-> "new_image",
                       image |-> deref(pending[w][1], image), offset |-> None])
  /\ waiting_image' = IF redrawer = Some("TileImage")
                      THEN deliver(waiting_image, pending[w][1])
                      ELSE waiting_image
  /\ pending' = [pending EXCEPT ![w] = None]
  /\ cons' = [cons EXCEPT ![w] = IdleCon]
  /\ raised' = "none"
  /\ UNCHANGED << redrawer, shown, polled, cancel >>
  /\ UNCHANGED << geometry, need, tiles, image, marsher, gui, history >>

\* TileImage._update, its lock: the slot is taken and emptied.
PollTake ==
  /\ notified' = None
  /\ gui.pc = "idle"
  /\ ~cancel
  /\ polled' = waiting_image
  /\ waiting_image' = None
  /\ gui' = [IdleGui EXCEPT !.pc = "poll"]
  /\ raised' = "none"
  /\ UNCHANGED << redrawer, shown, pending, cancel >>
  /\ UNCHANGED << geometry, need, tiles, image, marsher, cons, history >>

\* TileImage._update after its lock: set_image(image, None) when an image was
\* taken (the slot is emptied again, the presentation copies the image).
PollShow ==
  /\ notified' = None
  /\ gui.pc = "poll"
  /\ IF IsNone(polled)
     THEN UNCHANGED << waiting_image, shown >>
     ELSE /\ waiting_image' = None
          /\ shown' = Some([live |-> polled[1].live,
                            img |-> deref(polled[1], image)])
  /\ polled' = None
  /\ gui' = IdleGui
  /\ raised' = "none"
  /\ UNCHANGED << redrawer, pending, cancel >>
  /\ UNCHANGED << geometry, need, tiles, image, marsher, cons, history >>

\* TileImage.destroy: _done = True and Pooler.cancel().
Destroy ==
  /\ notified' = None
  /\ gui.pc = "idle"
  /\ ~cancel
  /\ cancel' = TRUE
  /\ raised' = "none"
  /\ UNCHANGED << redrawer, waiting_image, shown, polled, pending >>
  /\ UNCHANGED << geometry, need, tiles, image, marsher, gui, cons, history >>

\* Image bounds the client of a TileImage gives its tiler (as TileMap.__init__
\* does): three tiles in a row.
TileImageBounds == << Some(0), Some(0), Some(3 * tile_width), Some(tile_height) >>
\* Arguments notify_of_gap gives to update.
GapLocations == {<<dx, 0>> : dx \in {-tile_width, tile_width, 2 * tile_width}}

\* A TileImage after __init__ (its redrawer set, one Pooler started, the update
\* of InitialSize done), after its client has set the image bounds and the
\* next update has installed the bounded extent and redrawn; the Pooler has
\* fetched no tile yet and is at the head of its loop.
TileImageInit ==
  /\ window = << 0, 0, InitialSize[1], InitialSize[2] >>
  /\ border = 1
  /\ image_bounds = TileImageBounds
  /\ need = needed_buffer_extent(window, border, image_bounds)
  /\ buffer_extent = need
  /\ raised = "none"
  /\ redrawer = Some("TileImage")
  /\ notified = None
  /\ tiles = <<>>
  /\ image = scan_image(need, tiles)
  /\ needed_tiles = scan_missing(tile_space(need), tiles)
  /\ job_queue = 1
  /\ gui = IdleGui
  /\ cons = [c \in Consumers |-> IdleCon]
  /\ installed = needed_tiles
  /\ delivered = <<>>
  /\ superseded = {}
  /\ reconciled = need
  /\ late = {}
  /\ waiting_image = None
  /\ shown = Some([live |-> TRUE, img |-> image])
  /\ polled = None
  /\ pending = [w \in Workers |-> None]
  /\ cancel = FALSE

\* The GUI thread (notify_of_gap, the poll, destroy) and the Pooler.
TileImageNext ==
  \/ \E l \in GapLocations, s \in Sizes : ~cancel /\ Update(l, s)
  \/ Install
  \/ Put
  \/ PollTake
  \/ PollShow
  \/ Destroy
  \/ \E w \in Workers : PoolerGet(w)
  \/ \E w \in Workers : PoolerExit(w)
  \/ \E w \in Workers : GetLoop(w)
  \/ \E w \in Workers : GetWait(w)
  \/ \E w \in Workers : GetWake(w)
  \/ \E w \in Workers : GetTimeout(w)
  \/ \E w \in Workers : PasteTile(w)
  \/ \E w \in Workers : NotifyNewImage(w)
  \/ \E w \in Workers : FetchFail(w)

TileImageSpec == TileImageInit /\ [][TileImageNext]_vars

\* ------------------------------ a Tiler driven by its caller, no workers
\* Arguments of update: locations off the tile grid too, and no size.
UpdateLocations ==
  {<<dx, dy>> : dx \in {-(3 * tile_width), -tile_width, -1, 0, 1, tile_width,
                        2 * tile_width},
                dy \in {0, 1}}
UpdateSizes == {None, Some(<<1, 1>>), Some(<<tile_width + 1, 1>>)}
\* Arguments of move_tile_view_to, on and off the tile grid.
MoveAnywhere ==
  {<<x, y>> : x \in {-tile_width - 1, -1, 0, 1, tile_width, 2 * tile_width + 1},
              y \in {0, 1, tile_height - 1}}

TilerNext ==
  \/ \E l \in UpdateLocations, s \in UpdateSizes : Update(l, s)
  \/ Install
  \/ Put
  \/ \E m \in MoveAnywhere : MoveTileViewTo(m[1], m[2])

TilerSpec == Init /\ [][TilerNext]_vars


\* ======================================================== the properties
\* Tile counts the properties search when they divide by hand.
TileReach == 12

\* The tile index k with k*d <= a < (k+1)*d, and the one with (k-1)*d < a <= k*d.
FloorTiles(a, d) == CHOOSE k \in -TileReach..TileReach : k * d <= a /\ a < (k + 1) * d
CeilTiles(a, d) == CHOOSE k \in -TileReach..TileReach : (k - 1) * d < a /\ a <= k * d

\* A min bound raised to the image's, a max bound lowered to the image's.
Raised(v, bound) == IF bound = None THEN v ELSE IF bound[1] > v THEN bound[1] ELSE v
Lowered(v, bound) == IF bound = None THEN v ELSE IF bound[1] < v THEN bound[1] ELSE v

\* The extent C1 states for window w, border b and image bounds ib.
StatedExtent(w, b, ib) ==
  << Raised((FloorTiles(w[1], tile_width) - b) * tile_width, ib[1]),
     Raised((FloorTiles(w[2], tile_height) - b) * tile_height, ib[2]),
     Lowered((CeilTiles(w[3], tile_width) + b) * tile_width, ib[3]),
     Lowered((CeilTiles(w[4], tile_height) + b) * tile_height, ib[4]) >>

\* C1: whenever needed_buffer_extent has been read in the current geometry, the
\* value read is: the window's min corner floored (towards minus infinity) and
\* its max corner ceiled to tiles, moved outward by border tiles, in pixels,
\* each bound then clamped by the image bound on its side if there is one.
C1_NeededExtentFormula ==
  ~IsNone(need) => need = StatedExtent(window, border, image_bounds)

\* C1's case: read for a window whose min corner is negative and off the tile
\* grid, with border 2 and a max bound that the image bound has lowered.
C1_Witness ==
  /\ ~IsNone(need)
  /\ border = 2
  /\ window[1] < 0 /\ window[1] % tile_width # 0
  /\ window[2] < 0 /\ window[2] % tile_height # 0
  /\ ~IsNone(image_bounds[3]) /\ need[3] = image_bounds[3][1]
  /\ need[3] < (CeilTiles(window[3], tile_width) + border) * tile_width
  /\ IsNone(image_bounds[4])

\* The window moved outward by b tiles on each side, cut to the image bounds.
ExpandedClamped(w, b, ib) ==
  << Raised(w[1] - b * tile_width, ib[1]), Raised(w[2] - b * tile_height, ib[2]),
     Lowered(w[3] + b * tile_width, ib[3]), Lowered(w[4] + b * tile_height, ib[4]) >>

\* Rectangle e reaches at least as far as rectangle r on every side.
Covers(e, r) == e[1] <= r[1] /\ e[2] <= r[2] /\ e[3] >= r[3] /\ e[4] >= r[4]

OnGrid(e) ==
  /\ e[1] % tile_width = 0 /\ e[3] % tile_width = 0
  /\ e[2] % tile_height = 0 /\ e[4] % tile_height = 0

\* C2: every bound of the value read from needed_buffer_extent is a multiple
\* of the tile width (x) or height (y), and the value covers the window moved
\* outward by border tiles on each side and cut to the image bounds.
C2_NeededExtentAlignedCovers ==
  ~IsNone(need) =>
    /\ OnGrid(need)
    /\ Covers(need, ExpandedClamped(window, border, image_bounds))

\* C2's case: read for a window off the grid on its max side, with border 2 and
\* image bounds on both axes.
C2_Witness ==
  /\ ~IsNone(need)
  /\ border = 2
  /\ window[3] % tile_width # 0 /\ window[4] % tile_height # 0
  /\ ~IsNone(image_bounds[1]) /\ ~IsNone(image_bounds[4])
  /\ need[1] < need[3] /\ need[2] < need[4]

\* C3: the buffer extent is on the tile grid at the start and after every step
\* of update, move_tile_view_to, new_tile and get; and a step that gives the
\* buffer_extent setter a 4-tuple with a bound off the grid raises ValueError
\* and leaves the extent as it was.
C3_ExtentAlignedSetterRefuses ==
  /\ OnGrid(buffer_extent)
  /\ [][ /\ OnGrid(buffer_extent')
         /\ \A v \in BadExtents :
              (Len(v) = 4 /\ ~OnGrid(v) /\ SetBufferExtent(v)) =>
                 (raised' = "ValueError" /\ buffer_extent' = buffer_extent) ]_vars

\* C3's case: the setter has just refused a value, after a reconcile, a
\* move_tile_view_to that shifted the extent, a deposit and a get.
C3_Witness ==
  /\ raised = "ValueError"
  /\ buffer_extent # reconciled
  /\ reconciled # <<0, 0, 0, 0>>
  /\ tiles # <<>>
  /\ delivered # <<>>

\* C4: whenever update has returned (the GUI thread is outside it), the buffer
\* extent is the needed extent of the window that update set: the stated
\* formula for the current window, border and image bounds, which covers the
\* window moved outward by border tiles and cut to the image bounds.
C4_UpdateInstallsNeededExtent ==
  (gui.pc = "idle" /\ ~IsNone(need)) =>
    /\ buffer_extent = need
    /\ buffer_extent = StatedExtent(window, border, image_bounds)
    /\ Covers(buffer_extent, ExpandedClamped(window, border, image_bounds))

\* C4's case: an update has reconciled and returned, with an extent that the
\* image bound cut on the right and that reaches a border past the window on
\* the unbounded left.
C4_Witness ==
  /\ gui.pc = "idle"
  /\ ~IsNone(need)
  /\ reconciled = buffer_extent
  /\ job_queue > 0
  /\ IsNone(image_bounds[1])
  /\ buffer_extent[1] < 0
  /\ buffer_extent[1] <= window[1] - border * tile_width
  /\ buffer_extent[3] = image_bounds[3][1]
  /\ buffer_extent[3] < window[3] + border * tile_width

\* The pixel rectangle of the tile of coordinate c lies fully inside extent e.
TileRectInside(c, e) ==
  /\ e[1] <= c[1] * tile_width /\ (c[1] + 1) * tile_width <= e[3]
  /\ e[2] <= c[2] * tile_height /\ (c[2] + 1) * tile_height <= e[4]

\* C5: when a reconcile has just installed a new buffer extent (the GUI thread
\* is still inside the lock of _update), every coordinate left in the tile
\* cache has its tile inside the new buffer extent.
C5_ReconcileEvictsOutside ==
  gui.pc = "put" => \A c \in DOMAIN tiles : TileRectInside(c, buffer_extent)

\* C5's case: a reconcile has just installed an extent, the cache still holds a
\* tile, and the new range has tiles the cache does not hold.
C5_Witness ==
  /\ gui.pc = "put"
  /\ buffer_extent # <<0, 0, 0, 0>>
  /\ tiles # <<>>
  /\ installed # <<>>

\* C6 as stated: in every state, every cached coordinate has its tile inside
\* the current buffer extent.
C6_CacheInsideCurrentExtent ==
  \A c \in DOMAIN tiles : TileRectInside(c, buffer_extent)

\* C6, amended: in every state, every cached coordinate has its tile inside the
\* extent that the last reconcile installed, or was deposited by new_tile
\* after that reconcile.
C6_CacheInsideReconciledOrLate ==
  \A c \in DOMAIN tiles : TileRectInside(c, reconciled) \/ c \in late

\* C6's case: after a reconcile the cache holds a tile of the reconciled
\* extent and a tile deposited outside it, and move_tile_view_to has shifted
\* the buffer extent since.
C6_Witness ==
  /\ reconciled # <<0, 0, 0, 0>>
  /\ buffer_extent # reconciled
  /\ late # {}
  /\ \E c \in DOMAIN tiles : c \notin late /\ TileRectInside(c, reconciled)
  /\ \E c \in DOMAIN tiles : ~TileRectInside(c, buffer_extent)

\* The elements of a list, and whether it holds none of them twice.
Range(list) == {list[i] : i \in DOMAIN list}
NoDup(list) == \A i, j \in DOMAIN list : list[i] = list[j] => i = j

\* The tile coordinates whose tile lies inside extent e.
TilesOfExtent(e) ==
  {c \in (-TileReach..TileReach) \X (-TileReach..TileReach) : TileRectInside(c, e)}

\* C7 as stated: when a get that was called after the last reconcile has
\* raised Empty, the gets since that reconcile have returned every coordinate
\* of the list it installed, each once, and nothing else; that list holds only
\* tiles of the new extent, and every tile of the new extent that the cache
\* lacks is in it.
C7_GetsDrainMissingList ==
  \A w \in Workers :
    (cons[w].pc = "empty" /\ cons[w].fresh) =>
      /\ NoDup(delivered)
      /\ Range(delivered) = Range(installed)
      /\ Range(installed) \subseteq TilesOfExtent(reconciled)
      /\ (TilesOfExtent(reconciled) \ DOMAIN tiles) \subseteq Range(installed)

\* The coordinates that threads hold: get returned them, and the thread has
\* not yet deposited the tile or dropped the job.
Held == {cons[w].coord[1] : w \in {v \in Workers : cons[v].pc = "got"}}

\* C8 as stated: every coordinate returned by get since the last replacement
\* is of the list it installed; none of them is a coordinate that was pending
\* in the replaced list only; and when a replacement has just been made, every
\* coordinate that a thread holds and the cache lacks is in the new list.
C8_HeldUncachedReissued ==
  /\ Range(delivered) \subseteq Range(installed)
  /\ Range(delivered) \cap superseded = {}
  /\ gui.pc = "put" =>
       \A c \in Held : c \notin DOMAIN tiles => c \in Range(installed)

\* C8, amended: the same, the last part for the held coordinates whose tile
\* lies in the new buffer extent.
C8_HeldUncachedInExtentReissued ==
  /\ Range(delivered) \subseteq Range(installed)
  /\ Range(delivered) \cap superseded = {}
  /\ gui.pc = "put" =>
       \A c \in Held :
         (c \notin DOMAIN tiles /\ TileRectInside(c, buffer_extent)) =>
            c \in Range(installed)

\* C8's case: a replacement has just been made while a coordinate was pending
\* in the replaced list only, and a coordinate handed out before it, not
\* cached, is pending again in the new list.
C8_Witness ==
  /\ gui.pc = "put"
  /\ superseded # {}
  /\ \E c \in Held : c \notin DOMAIN tiles /\ c \in Range(needed_tiles)

\* C9: between two replacements of the job list, the coordinates that get has
\* returned (to any consumer) since the last one are all different, none of
\* them is still pending, no pending coordinate is there twice, and returned
\* and pending together are exactly the list installed.
C9_EachCoordinateOnceNoneLost ==
  /\ NoDup(delivered)
  /\ NoDup(needed_tiles)
  /\ Range(delivered) \cap Range(needed_tiles) = {}
  /\ Range(delivered) \cup Range(needed_tiles) = Range(installed)

\* C9's case: two consumers hold the two coordinates of the installed list,
\* each its own.
C9_Witness ==
  /\ Len(installed) = 2
  /\ cons[1].pc = "got" /\ cons[2].pc = "got"
  /\ cons[1].coord # cons[2].coord
  /\ Range(delivered) = {cons[1].coord[1], cons[2].coord[1]}
  /\ Range(delivered) = Range(installed)

\* Consumer c is inside a call of get that began after the last replacement.
InFreshCall(c) == cons[c].pc \in {"loop", "wait", "blocked"} /\ cons[c].fresh

\* C10: a call of get that is under way with no coordinate pending and no
\* replacement since it began does not return a coordinate in its next step;
\* and such a call with a finite timeout leads to Empty, unless a replacement
\* is made first, however many signals the signal queue holds.
C10_FiniteGetOnEmptyListRaisesEmpty ==
  /\ [][ \A c \in Consumers :
           (InFreshCall(c) /\ needed_tiles = <<>>) => cons'[c].pc # "got" ]_vars
  /\ \A c \in Consumers :
       (InFreshCall(c) /\ cons[c].timeout # "none" /\ needed_tiles = <<>>)
          ~> (cons[c].pc = "empty" \/ ~cons[c].fresh)

\* C10's case: a call with a finite timeout, begun after the last replacement,
\* has found the list empty and turns to a signal queue that earlier
\* replacements have filled.
C10_Witness ==
  \E c \in Consumers :
    /\ cons[c].pc = "wait" /\ cons[c].fresh
    /\ cons[c].timeout = "pos"
    /\ needed_tiles = <<>>
    /\ gui.pc = "idle"
    /\ job_queue = MaxSignals

\* C11 as stated: a consumer that is blocked in get after a replacement has
\* been made and signalled, while the list holds a coordinate, does not stay
\* blocked: it leaves the signal queue, or the list is emptied.
C11_ReplacementWakesEveryBlocked ==
  \A c \in Consumers :
    (cons[c].pc = "blocked" /\ gui.pc = "idle" /\ needed_tiles # <<>>)
       ~> (cons[c].pc # "blocked" \/ needed_tiles = <<>>)

\* ----------------------------------------------------------------- new_tile
\* The coordinates new_tile can be called with: those of direct calls and
\* those a worker holds.
Deposited == Coords \cup Held

\* This step is a call new_tile(c[1], c[2], tile), by a worker or directly.
NewTileStep(c) ==
  /\ c \in DOMAIN tiles'
  /\ gui' = gui
  /\ \/ cons' = cons /\ NewTile(c)
     \/ \E w \in Workers :
          /\ cons[w].pc = "got" /\ cons[w].coord = Some(c)
          /\ cons'[w].pc = "idle"
          /\ Deposit(w)

\* The offset of the tile of coordinate c in an image whose corner is that of e.
TileOffset(c, e) == << c[1] * tile_width - e[1], c[2] * tile_height - e[2] >>

\* C12: a call of new_tile with a tile whose rectangle lies inside the current
\* buffer extent leaves the cache holding that tile for the coordinate (and
\* every other entry as it was), leaves the live image holding the tile at
\* offset (tx*tile_width - xmin, ty*tile_height - ymin), and calls new_image
\* of the redrawer with the image so updated.
C12_NewTileInsideStoresPastesNotifies ==
  [][\A c \in Deposited :
       (TileRectInside(c, buffer_extent) /\ NewTileStep(c)) =>
         /\ DOMAIN tiles' = DOMAIN tiles \cup {c}
         /\ tiles'[c] = tile_of(c)
         /\ \A k \in DOMAIN tiles \ {c} : tiles'[k] = tiles[k]
         /\ << TileOffset(c, buffer_extent), tile_of(c) >> \in image'.pix
         /\ \A p \in image'.pix :
              p[1] = TileOffset(c, buffer_extent) => p[2] = tile_of(c)
         /\ notified' = Some([call |-> "new_image", image |-> image',
                              offset |-> None])
         /\ buffer_extent' = buffer_extent]_vars

\* A state just after new_tile has pasted a tile lying inside the extent and
\* told the redrawer.
C12_Witness ==
  /\ ~IsNone(notified)
  /\ notified[1].call = "new_image"
  /\ notified[1].image = image
  /\ \E c \in DOMAIN tiles :
       /\ TileRectInside(c, buffer_extent)
       /\ << TileOffset(c, buffer_extent), tiles[c] >> \in image.pix

\* C13: a call of new_tile for a coordinate whose tile rectangle is not fully
\* inside the current buffer extent adds the tile to the cache, leaves the
\* buffer image, the buffer extent, the job list and the signal queue as they
\* were, and calls nothing of the redrawer.
C13_NewTileOutsideOnlyCaches ==
  [][\A c \in Deposited :
       (~TileRectInside(c, buffer_extent) /\ NewTileStep(c)) =>
         /\ DOMAIN tiles' = DOMAIN tiles \cup {c}
         /\ tiles'[c] = tile_of(c)
         /\ \A k \in DOMAIN tiles \ {c} : tiles'[k] = tiles[k]
         /\ UNCHANGED << image, buffer_extent, needed_tiles, job_queue >>
         /\ notified' = None
         /\ raised' = "none"]_vars

\* A state after new_tile has cached a tile lying outside the extent that a
\* reconcile has installed: the tile is in the cache and not in the image.
C13_Witness ==
  /\ buffer_extent[1] < buffer_extent[3]
  /\ IsNone(notified)
  /\ \E c \in late \cap DOMAIN tiles :
       /\ ~TileRectInside(c, buffer_extent)
       /\ \A p \in image.pix : p[2] # tiles[c]

\* C14: a fetch that fails (the provider gives no tile or raises) leaves the
\* cache, the buffer image, the buffer extent, the job list and the signal
\* queue as they were, so a coordinate absent from the cache stays absent, and
\* calls nothing of the redrawer.
C14_FailedFetchChangesNothing ==
  [][\A w \in Workers :
       (cons[w].pc = "got" /\ FetchFail(w)) =>
         /\ UNCHANGED << tiles, image, buffer_extent, needed_tiles, job_queue >>
         /\ cons[w].coord[1] \notin DOMAIN tiles
              => cons[w].coord[1] \notin DOMAIN tiles'
         /\ notified' = None]_vars

\* A state after a failed fetch of a coordinate of the installed list: it has
\* been handed out, no worker holds it and the cache has no tile for it.
C14_Witness ==
  /\ gui.pc = "idle"
  /\ \E i \in DOMAIN delivered :
       /\ delivered[i] \notin DOMAIN tiles
       /\ delivered[i] \notin Held
       /\ TileRectInside(delivered[i], buffer_extent)

\* ------------------------------------------------------------ failed fetch
\* The fetch of coordinate c has failed: get has handed c out since the last
\* reconcile, no worker holds it any more, and the cache has no tile for it
\* (a deposit would have cached it, and only a reconcile evicts).
Failed(c) ==
  /\ c \in Range(delivered)
  /\ c \notin Held
  /\ c \notin DOMAIN tiles

\* This step is the one on which a call of update settles what it does: it
\* finds the needed extent equal to the buffer extent and returns, or it
\* installs the needed extent and the new job list.
UpdateReturnsUnchanged ==
  /\ gui.pc = "idle"
  /\ gui'.pc = "idle"
  /\ cons' = cons
  /\ \E l \in Locations, s \in Sizes : Update(l, s)
UpdateInstalls == gui.pc = "install" /\ gui'.pc = "put"

\* C15 as stated: when an update call settles what it does, every coordinate
\* whose fetch has failed and that lies in the tile range of the call's needed
\* extent is in the job list.
C15_FailedReissuedByNextUpdate ==
  [][(UpdateReturnsUnchanged \/ UpdateInstalls) =>
       \A c \in Range(delivered) :
         (Failed(c) /\ in_range(c, tile_space(need'))) =>
           c \in Range(needed_tiles')]_vars

\* C15 amended: when an update call installs a new buffer extent, every
\* coordinate whose fetch has failed and that lies in the tile range of the
\* new extent is in the job list it installs.
C15_FailedReissuedByNextInstall ==
  [][UpdateInstalls =>
       \A c \in Range(delivered) :
         (Failed(c) /\ in_range(c, tile_space(need))) =>
           /\ buffer_extent' = need
           /\ c \in Range(needed_tiles')]_vars

\* An update call has scanned for a new extent that still contains a
\* coordinate whose fetch failed, and has it in the list it is about to
\* install.
C15_Witness ==
  /\ gui.pc = "install"
  /\ \E c \in Range(delivered) :
       /\ Failed(c)
       /\ in_range(c, tile_space(need))
       /\ c \in Range(gui.tiles_needed)

\* --------------------------------------------------------------- tile reuse
\* Image img, whose corner is that of extent e, holds the cached tile of
\* coordinate c at the tile's position.
Pasted(c, img, e) == << TileOffset(c, e), tiles[c] >> \in img.pix

\* C16 as stated: when a reconcile installs a new extent whose tile range
\* contains a coordinate whose tile is cached, lies inside the buffer extent
\* and is pasted in the buffer image, the tile is pasted in the new image at
\* its position for the new extent and the coordinate is not in the new job
\* list, whatever deposits fell into the update call.
C16_DepositedTileReused ==
  [][UpdateInstalls =>
       \A c \in DOMAIN tiles :
         (/\ TileRectInside(c, buffer_extent)
          /\ Pasted(c, image, buffer_extent)
          /\ in_range(c, tile_space(need))) =>
           /\ c \in DOMAIN tiles'
           /\ << TileOffset(c, buffer_extent'), tiles'[c] >> \in image'.pix
           /\ c \notin Range(needed_tiles')]_vars

\* C17 as stated: once a reconcile has made the buffer image, and while no
\* update call is under way, at every tile position of the buffer extent the
\* image holds the cached tile of that coordinate when the cache has one, and
\* nothing when it has none.
C17_ImageShowsCache ==
  (image.exists /\ gui.pc = "idle") =>
    \A c \in TilesOfExtent(buffer_extent) :
      IF c \in DOMAIN tiles
      THEN Pasted(c, image, buffer_extent)
      ELSE \A p \in image.pix : p[1] # TileOffset(c, buffer_extent)

\* ------------------------------------------------------ reconcile and redraw
\* This step is a call of update (by the caller or by move_tile_view_to) up
\* to the point where _update has compared the needed extent with the buffer
\* extent.
UpdateCalled ==
  /\ gui.pc = "idle"
  /\ cons' = cons
  /\ raised' = "none"
  /\ \/ \E l \in Locations, s \in Sizes : Update(l, s)
     \/ \E m \in MoveTargets : MoveTileViewTo(m[1], m[2])

\* C18: a call of _update that finds the needed buffer extent equal to the
\* buffer extent returns at once: nothing is left to install, the buffer
\* extent, the image, the cache, the job list and the signal queue are as the
\* call found them, and nothing of the redrawer is called.
C18_ReconcileOfSameExtentIsNoOp ==
  [][(/\ gui.pc = "idle"
      /\ needed_buffer_extent(window', border', image_bounds') = buffer_extent'
      /\ UpdateCalled) =>
       /\ gui'.pc = "idle"
       /\ gui'.tiles_needed = <<>>
       /\ UNCHANGED << image, tiles, needed_tiles, job_queue >>
       /\ (\E l \in Locations, s \in Sizes : Update(l, s))
            => buffer_extent' = buffer_extent
       /\ notified' = None]_vars

\* A state after a reconcile that found nothing to do: move_tile_view_to has
\* shifted the buffer extent to the extent its window needs, so the extent is
\* not the one the last reconcile installed, and no install is pending; the
\* cache and the job list still hold what they held.
C18_Witness ==
  /\ gui.pc = "idle"
  /\ image.exists
  /\ buffer_extent # reconciled
  /\ need = buffer_extent
  /\ needed_buffer_extent(window, border, image_bounds) = buffer_extent
  /\ IsNone(notified)
  /\ needed_tiles # <<>>

\* The redrawer has just been called with (image, offset).
IsRedraw(n) == ~IsNone(n) /\ n[1].call = "redraw"

\* This step ends an update call that has installed a new extent: the signal
\* is put, the lock is left and _redraw runs.
UpdateEnds == gui.pc = "put" /\ gui'.pc = "idle"

\* C19: the redrawer is called with (image, offset) on the step that ends an
\* update call which has installed a new buffer extent, and on no other step:
\* not while the call scans or installs (so once for the call, and the extent
\* it installs differs from the one before), and not by a call that finds the
\* needed extent equal to the buffer extent, which ends at once.
C19_RedrawOncePerExtentChange ==
  [][/\ UpdateEnds => IsRedraw(notified')
     /\ IsRedraw(notified') => UpdateEnds
     /\ UpdateInstalls =>
          (buffer_extent' # buffer_extent /\ ~IsRedraw(notified'))
     /\ (/\ gui.pc = "idle"
         /\ needed_buffer_extent(window', border', image_bounds') = buffer_extent'
         /\ UpdateCalled) =>
          (gui'.pc = "idle" /\ ~IsRedraw(notified'))]_vars

\* A state just after an update call that changed the buffer extent has
\* ended with its one call of the redrawer.
C19_Witness ==
  /\ IsRedraw(notified)
  /\ gui.pc = "idle"
  /\ buffer_extent = reconciled
  /\ buffer_extent[1] < buffer_extent[3]

\* C20: when the redrawer has just been called with (image, offset), the
\* offset is (window xmin - extent xmin, window ymin - extent ymin) for the
\* buffer extent the reconcile has installed, and the image is the buffer
\* image it has installed.
C20_RedrawOffsetAndImage ==
  IsRedraw(notified) =>
    /\ buffer_extent = reconciled
    /\ notified[1].offset = Some(<< window[1] - buffer_extent[1],
                                    window[2] - buffer_extent[2] >>)
    /\ notified[1].image = image
    /\ image.w = Max(0, buffer_extent[3] - buffer_extent[1])
    /\ image.h = Max(0, buffer_extent[4] - buffer_extent[2])

\* A state just after a redraw call whose extent does not start at the
\* origin, whose offset is not zero and whose image shows a cached tile.
C20_Witness ==
  /\ IsRedraw(notified)
  /\ buffer_extent[1] # 0
  /\ notified[1].offset[1][1] > 0
  /\ notified[1].image.pix # {}

\* ----------------------------------------------------- update and the window
\* C21: a call update(location, size) sets the window to the rectangle whose
\* min corner is the min corner of the buffer extent, as the call finds it,
\* plus the location, and whose width and height are those of size, or those
\* of the window the call finds when size is None.
C21_UpdateSetsWindow ==
  [][\A l \in UpdateLocations, s \in UpdateSizes :
       (gui.pc = "idle" /\ cons' = cons /\ Update(l, s)) =>
         LET wd == IF s = None THEN window[3] - window[1] ELSE s[1][1]
             ht == IF s = None THEN window[4] - window[2] ELSE s[1][2]
         IN  window' = << buffer_extent[1] + l[1],
                          buffer_extent[2] + l[2],
                          buffer_extent[1] + l[1] + wd,
                          buffer_extent[2] + l[2] + ht >>]_vars

\* A state just after the scan of an update call made while the buffer extent
\* did not start at the origin: the window stands at the extent's corner plus
\* a location off the corner, and is wider than one pixel.
C21_Witness ==
  /\ gui.pc = "install"
  /\ buffer_extent[1] # 0
  /\ buffer_extent[1] < buffer_extent[3]
  /\ window[3] - window[1] = tile_width + 1
  /\ << window[1] - buffer_extent[1], window[2] - buffer_extent[2] >>
        \in UpdateLocations \ {<<0, 0>>}

\* C22: a call move_tile_view_to(x, y) raises nothing and sets the window to
\* the rectangle with min corner (x, y) and the width and height of the window
\* it finds; the rest of the call (the install and the redraw of its
\* reconcile) leaves the window alone, so it is so when the call returns.
C22_MoveSetsWindowCorner ==
  [][/\ \A m \in MoveAnywhere :
          (gui.pc = "idle" /\ cons' = cons /\ MoveTileViewTo(m[1], m[2])) =>
            /\ raised' = "none"
            /\ window' = << m[1], m[2],
                            m[1] + (window[3] - window[1]),
                            m[2] + (window[4] - window[2]) >>
     /\ gui.pc \in {"install", "put"} => window' = window]_vars

\* A state after move_tile_view_to has returned without a reconcile to do: the
\* buffer extent is the shifted one, not one a reconcile installed, its corner
\* is the tile corner below the window's corner, and the window is off the
\* tile grid and not empty.
C22_Witness ==
  /\ gui.pc = "idle"
  /\ buffer_extent # reconciled
  /\ buffer_extent[1] < buffer_extent[3]
  /\ window[1] % tile_width # 0
  /\ buffer_extent[1] = window[1] - (window[1] % tile_width)
  /\ window[3] > window[1]

\* ------------------------------------------------ claims on a TileImage
\* The presentation has come back from the poll it was in.
PollReturns == gui.pc = "poll" /\ gui'.pc # "poll"

\* C23: the slot _waiting_image holds one image. A delivery (_new_image) leaves
\* in it the image it delivers, whatever waited there. A poll (_update) takes
\* what the slot holds and leaves it empty; the poll hands the image it took to
\* the presentation and keeps nothing, and a poll that took nothing changes
\* neither the presentation nor the slot. An image is held as taken only
\* while a poll is between its take and its set_image.
C23_MailboxIsOneSlot ==
  [][/\ \A w \in Workers :
          (cons[w].pc = "notify" /\ cons'[w].pc # "notify"
             /\ redrawer = Some("TileImage")) =>
            waiting_image' = Some(pending[w][1])
     /\ (gui.pc = "idle" /\ gui'.pc = "poll") =>
          (polled' = waiting_image /\ waiting_image' = None)
     /\ PollReturns =>
          /\ polled' = None
          /\ IF IsNone(polled)
             THEN shown' = shown /\ waiting_image' = waiting_image
             ELSE /\ waiting_image' = None
                  /\ shown' = Some([live |-> polled[1].live,
                                    img |-> deref(polled[1], image)])
     /\ ~IsNone(polled) => gui.pc = "poll"]_vars

\* A state where the worker has delivered an image of the buffer a reconcile
\* has since replaced, has pasted a tile into the new buffer image and is
\* about to deliver that one over the first.
C23_Witness ==
  /\ ~IsNone(waiting_image)
  /\ ~waiting_image[1].live
  /\ \E w \in Workers :
       /\ cons[w].pc = "notify"
       /\ pending[w] = Some(LiveRef)
  /\ gui.pc = "idle"

\* C24: whenever an image is handed to the presentation, by the redraw of a
\* reconcile or by a poll, it is the buffer image the tiler holds then: no
\* step other than the install of a new buffer image leaves on show an image
\* that a reconcile has replaced.
C24_ShownIsTheLiveImage ==
  [][(shown' # shown /\ gui.pc # "install") =>
       (~IsNone(shown') /\ shown'[1].live)]_vars

\* C25: a fetch that fails (the provider raises, or gives no tile) leaves the
\* worker at the head of its loop, from where it calls get again: it calls
\* neither the redraw sink nor new_image, and changes neither the mailbox nor
\* the image on show nor the cache nor the buffer image. A worker has left
\* its loop only if the stop flag is set.
C25_FailureKeepsWorkerInLoop ==
  [][\A w \in Workers :
       /\ (cons[w].pc = "got" /\ gui' = gui /\ FetchFail(w)) =>
            /\ cons'[w].pc = "idle"
            /\ notified' = None
            /\ waiting_image' = waiting_image
            /\ shown' = shown
            /\ pending' = pending
            /\ tiles' = tiles
            /\ image' = image
       /\ cons'[w].pc = "exited" => cancel']_vars

\* A state where the fetch of a job has failed (the job was handed out, is
\* held by no worker and its tile is not cached), the flag is not set, and
\* the worker has since taken a later job and pasted its tile.
C25_Witness ==
  /\ ~cancel
  /\ \E c \in Coords :
       /\ Failed(c)
       /\ \E w \in Workers :
            /\ cons[w].pc = "notify"
            /\ cons[w].coord # Some(c)
            /\ cons[w].coord[1] \in DOMAIN tiles

\* C26: once the stop flag is set, no step inserts a tile into the cache,
\* pastes into the buffer image or delivers an image to the mailbox.
C26_NothingDepositedAfterStop ==
  [][cancel =>
       /\ tiles' = tiles
       /\ image' = image
       /\ waiting_image' = waiting_image]_vars

\* The threads of a TileImage run on: the GUI thread ends the call it is in,
\* and the Pooler takes its next step, the provider returning every call.
TileImageFairSpec ==
  /\ TileImageSpec
  /\ WF_vars(Install)
  /\ WF_vars(Put)
  /\ WF_vars(PollShow)
  /\ \A w \in Workers :
       /\ WF_vars(PoolerExit(w))
       /\ WF_vars(GetLoop(w))
       /\ WF_vars(GetWait(w))
       /\ WF_vars(GetWake(w))
       /\ WF_vars(GetTimeout(w))
       /\ WF_vars(PasteTile(w) \/ FetchFail(w))
       /\ WF_vars(NotifyNewImage(w))

\* C27: with the stop flag set, a worker at the head of its loop starts no
\* iteration (it does not call get) and its only step is to leave the loop; a
\* worker inside an iteration when the flag is set is, after that iteration,
\* at the head of the loop, so that every worker has left its loop some time
\* after the flag is set.
C27_WorkerLeavesLoopAfterStop ==
  /\ [][\A w \in Workers :
          (cancel /\ cons[w].pc \in {"idle", "empty"}) =>
            cons'[w].pc \in {cons[w].pc, "exited"}]_vars
  /\ (cancel ~> (\A w \in Workers : cons[w].pc = "exited"))

\* A state where the worker has left its loop after the flag was set while it
\* was in an iteration, the tile of which it has pasted.
C27_Witness ==
  /\ cancel
  /\ \E w \in Workers : cons[w].pc = "exited"
  /\ late = {}
  /\ tiles # <<>>

\* ------------------------------------------------ claims on the setters
\* The tuple v has a bound, given as an int, that is not a multiple of the
\* tile width (first and third item) or of the tile height (second and
\* fourth).
OffGrid(v) ==
  \E i \in DOMAIN v \cap 1..4 :
    /\ ~IsNone(v[i])
    /\ v[i][1].kind = "int"
    /\ v[i][1].num % (IF i \in {1, 3} THEN tile_width ELSE tile_height) # 0

\* The tuples given to the setter that have not four items or have a bound
\* off the grid.
BadBounds == {v \in BoundsAttempts : Len(v) # 4 \/ OffGrid(v)}

InvertedBounds ==
  {v \in BoundsAttempts :
     /\ Len(v) = 4
     /\ ~int_or_none_raises(v)
     /\ bounds_accepted(int_or_none(v))
     /\ \/ /\ ~IsNone(v[1]) /\ ~IsNone(v[3])
           /\ int_of(v[1][1]) >= int_of(v[3][1])
        \/ /\ ~IsNone(v[2]) /\ ~IsNone(v[4])
           /\ int_of(v[2][1]) >= int_of(v[4][1])}

\* C29: setting image bounds that are on the tile grid and have min >= max on
\* an axis where both bounds are given raises ValueError.
C29_InvertedBoundsRefused ==
  [][(window' = window /\ border' = border /\ buffer_extent' = buffer_extent) =>
       \A v \in InvertedBounds :
         SetImageBounds(v) => raised' = "ValueError"]_vars

\* An attempt on the border is the only setter that can have made this step.
BorderStep ==
  /\ window' = window
  /\ image_bounds' = image_bounds
  /\ buffer_extent' = buffer_extent

\* C30 as stated: setting the border to a value that is not an integer, or to
\* an integer n < 1, raises ValueError and leaves the border as it was; every
\* integer n >= 1 is accepted; the border is >= 1 in every state.
C30_NonIntegerOrSmallRefused ==
  [][/\ BorderStep =>
          \A v \in BorderAttempts :
            SetBorder(v) =>
              IF v.kind # "int" \/ v.num < 1
              THEN raised' = "ValueError" /\ border' = border
              ELSE raised' = "none" /\ border' = v.num
     /\ border' >= 1]_vars

\* C30, amended: setting the border to a value that int() does not convert,
\* or whose int() is < 1, raises ValueError and leaves the border as it was;
\* every other value is accepted and the border becomes its int(), so every
\* integer n >= 1 is accepted as n; the border is >= 1 in every state.
C30_IntBelowOneRefused ==
  [][/\ BorderStep =>
          \A v \in BorderAttempts :
            SetBorder(v) =>
              IF int_raises(v) \/ int_of(v) < 1
              THEN raised' = "ValueError" /\ border' = border
              ELSE /\ raised' = "none"
                   /\ border' = int_of(v)
                   /\ v.kind = "int" => border' = v.num
     /\ border' >= 1]_vars

\* A state after a setter has raised while a border of MaxBorder set before
\* stands, the other properties being as __init__ left them.
C30_Witness ==
  /\ raised = "ValueError"
  /\ border = MaxBorder
  /\ window = <<0, 0, tile_width, tile_height>>
  /\ image_bounds = <<None, None, None, None>>
  /\ buffer_extent = <<0, 0, 0, 0>>

\* ------------------------------------------- claims on extents and moves
\* The window is less than one tile wide and less than one tile high (empty
\* windows too).
SmallWindow(w) ==
  /\ 0 <= w[3] - w[1] /\ w[3] - w[1] < tile_width
  /\ 0 <= w[4] - w[2] /\ w[4] - w[2] < tile_height

\* C31: whenever needed_buffer_extent has been read for a window less than one
\* tile wide and high, with no image bounds, the value read is at least
\* 1 + 2 * border tiles wide and at least 1 + 2 * border tiles high.
C31_SmallWindowSpansOneTileAndBorders ==
  (/\ ~IsNone(need)
   /\ image_bounds = <<None, None, None, None>>
   /\ SmallWindow(window)) =>
    /\ need[3] - need[1] >= (1 + 2 * border) * tile_width
    /\ need[4] - need[2] >= (1 + 2 * border) * tile_height

\* The extent has min > max on some axis.
Inverted(e) == e[1] > e[3] \/ e[2] > e[4]

\* C32: when the needed extent has min > max on an axis, the install of the
\* reconcile raises nothing, makes that extent the buffer extent, installs a
\* buffer image of width zero (x axis) or height zero (y axis), leaves the job
\* list and the cache empty; and while the buffer extent has min > max on an
\* axis the buffer image has that width or height zero and nothing pasted in
\* it, whatever new_tile is given.
C32_EmptyExtentInstalledEmpty ==
  [][/\ (gui.pc = "install" /\ gui'.pc # "install" /\ Inverted(need)) =>
          /\ raised' = "none"
          /\ buffer_extent' = need
          /\ need[1] > need[3] => image'.w = 0
          /\ need[2] > need[4] => image'.h = 0
          /\ needed_tiles' = <<>>
          /\ tiles' = <<>>
     /\ Inverted(buffer_extent') =>
          /\ buffer_extent'[1] > buffer_extent'[3] => image'.w = 0
          /\ buffer_extent'[2] > buffer_extent'[4] => image'.h = 0
          /\ image'.pix = {}]_vars

\* A state where the buffer extent has min > max, the reconcile that installed
\* it has returned, and new_tile has since stored a tile and pasted nothing.
C32_Witness ==
  /\ gui.pc = "idle"
  /\ Inverted(buffer_extent)
  /\ buffer_extent = reconciled
  /\ tiles # <<>>
  /\ late # {}
  /\ image.pix = {}

\* C33: every paste of new_tile into the buffer image is made while the buffer
\* extent is the one the last reconcile installed together with that image,
\* after an update and after a move_tile_view_to alike.
C33_PasteUsesTheImagesExtent ==
  [][(gui' = gui /\ image' # image) => buffer_extent = reconciled]_vars

\* C34: on the step on which a reconcile replaces the job list, no coordinate
\* of the new list is in the cache as that step leaves it.
C34_NewListHoldsNoCachedTile ==
  [][(gui.pc = "install" /\ gui'.pc = "put") =>
       \A i \in DOMAIN needed_tiles' : needed_tiles'[i] \notin DOMAIN tiles']_vars

\* C35: once a reconcile has installed a buffer image, the image is as wide as
\* the buffer extent, or of width zero when the extent has min > max in x, and
\* as high as the extent, or of height zero when it has min > max in y.
C35_ImageSizeIsExtentSize ==
  image.exists =>
    /\ image.w = Max(0, buffer_extent[3] - buffer_extent[1])
    /\ image.h = Max(0, buffer_extent[4] - buffer_extent[2])

\* A state after move_tile_view_to has shifted the extent and returned without
\* a new image: the extent is not the one the image was made for, and the
\* image is not empty.
C35_Witness ==
  /\ gui.pc = "idle"
  /\ image.exists
  /\ buffer_extent # reconciled
  /\ image.w > 0 /\ image.h > 0

\* ------------------------------- a TileImage that is scrolled, never closed
\* The GUI thread scrolls (notify_of_gap, move_tile_view_to) and the Pooler
\* fetches; the provider gives a tile for every job.
ViewportChange ==
  \/ \E l \in GapLocations, s \in Sizes : Update(l, s)
  \/ \E m \in MoveTargets : MoveTileViewTo(m[1], m[2])

ScrollNext ==
  \/ ViewportChange
  \/ Install
  \/ Put
  \/ \E w \in Workers : PoolerGet(w)
  \/ \E w \in Workers : GetLoop(w)
  \/ \E w \in Workers : GetWait(w)
  \/ \E w \in Workers : GetWake(w)
  \/ \E w \in Workers : GetTimeout(w)
  \/ \E w \in Workers : PasteTile(w)
  \/ \E w \in Workers : NotifyNewImage(w)

ScrollSpec == TileImageInit /\ [][ScrollNext]_vars

\* The GUI thread ends the call it is in and the Pooler takes its next step.
ScrollFairSpec ==
  /\ ScrollSpec
  /\ WF_vars(Install)
  /\ WF_vars(Put)
  /\ \A w \in Workers :
       /\ WF_vars(PoolerGet(w))
       /\ WF_vars(GetLoop(w))
       /\ WF_vars(GetWait(w))
       /\ WF_vars(GetWake(w))
       /\ WF_vars(GetTimeout(w))
       /\ WF_vars(PasteTile(w))
       /\ WF_vars(NotifyNewImage(w))

\* The tile coordinates of the tile range of extent e.
ExtentTileRange(e) ==
  {<<tx, ty>> : tx \in tile_space(e)[1]..(tile_space(e)[3] - 1),
                ty \in tile_space(e)[2]..(tile_space(e)[4] - 1)}

\* The job list is empty and every tile of the buffer extent's tile range is
\* cached and pasted in the buffer image at its place.
Settled ==
  /\ needed_tiles = <<>>
  /\ \A c \in ExtentTileRange(buffer_extent) :
       c \in DOMAIN tiles /\ Pasted(c, image, buffer_extent)

\* C36: in every behaviour in which, from some point on, no update and no
\* move_tile_view_to is called, the job list is eventually empty with every
\* tile of the buffer extent's tile range cached and pasted in the buffer
\* image.
C36_EventuallyAllTilesShown ==
  <>[][~ViewportChange]_vars => []<>Settled

\* C37: when move_tile_view_to returns, every cached tile lies in the tile
\* range of the buffer extent it has set, and every tile of that range is
\* cached or in the job list. Stated of the calls that return from _update at
\* its first test; the others return as a reconcile does, through its install.
C37_MoveLeavesReconciledExtent ==
  [][\A m \in MoveTargets :
       (gui.pc = "idle" /\ cons' = cons /\ MoveTileViewTo(m[1], m[2])
          /\ gui'.pc = "idle" /\ raised' = "none") =>
         /\ \A c \in DOMAIN tiles' : c \in ExtentTileRange(buffer_extent')
         /\ \A c \in ExtentTileRange(buffer_extent') :
              c \in DOMAIN tiles' \/ c \in Range(needed_tiles')]_vars

\* ------------------------------------- a marsher with a single consumer
\* One thread replaces the list, the one Pooler thread calls get.
SingleNext ==
  \/ \E l \in JobLists : SetNeededTiles(l)
  \/ Put
  \/ \E w \in Workers, t \in Timeouts : GetCall(w, t)
  \/ \E w \in Workers : GetLoop(w)
  \/ \E w \in Workers : GetWait(w)
  \/ \E w \in Workers : GetWake(w)
  \/ \E w \in Workers : GetTimeout(w)
  \/ \E w \in Workers : FetchFail(w)

SingleSpec == MarsherInit /\ [][SingleNext]_vars

\* The thread inside set_needed_tiles puts its signal, the thread inside get
\* runs on.
SingleFairSpec ==
  SingleSpec /\ WF_vars(Put) /\ \A w \in Workers : WF_vars(GetRuns(w))

\* The consumer has found the list empty and has not yet called
\* _job_queue.get, the list holds a coordinate, and the call that replaced it
\* has put its signal (or the consumer waits without a timeout).
ReplacedBeforeWait(w) ==
  /\ cons[w].pc = "wait"
  /\ needed_tiles # <<>>
  /\ gui.pc = "idle" \/ cons[w].timeout = "none"

\* C38: with one consumer, a consumer that has found the list empty is never
\* about to wait, or waiting, on an empty signal queue while the list holds a
\* coordinate, unless the signal of the replacement is about to be put; and
\* when the list is replaced with a non-empty one between the consumer's test
\* of the list and its wait, its get returns a coordinate of the list that is
\* installed (unless the list is replaced by an empty one first).
C38_WakeUpNotLost ==
  /\ [](\A w \in Workers :
          (cons[w].pc \in {"wait", "blocked"} /\ needed_tiles # <<>>) =>
            (job_queue > 0 \/ gui.pc = "put"))
  /\ \A w \in Workers :
       ReplacedBeforeWait(w) ~>
         \/ cons[w].pc = "got" /\ cons[w].coord[1] \in Range(installed)
         \/ needed_tiles = <<>>

\* A state where the consumer, in a get with a timeout, has found the list
\* empty, and the list has since been replaced with two coordinates and the
\* signal put.
C38_Witness ==
  \E w \in Workers :
    /\ ReplacedBeforeWait(w)
    /\ cons[w].timeout = "pos"
    /\ gui.pc = "idle"
    /\ Len(needed_tiles) = 2
    /\ installed = needed_tiles
    /\ job_queue > 0

\* C39: a call of new_tile leaves the job list and the signal queue as they
\* are, whether its coordinate is in the list or not; and a get that takes a
\* job takes the last coordinate of the list, cached or not.
C39_NewTileLeavesJobList ==
  [][/\ \A c \in Deposited :
          NewTileStep(c) =>
            (needed_tiles' = needed_tiles /\ job_queue' = job_queue)
     /\ \A w \in Workers :
          (cons[w].pc = "loop" /\ cons'[w].pc = "got") =>
            /\ cons'[w].coord = Some(needed_tiles[Len(needed_tiles)])
            /\ Len(needed_tiles') = Len(needed_tiles) - 1]_vars

\* A state where get has returned a coordinate whose tile was deposited while
\* it was pending: the worker holds the job, the tile is in the cache, and
\* the coordinate is of the list the last reconcile installed.
C39_Witness ==
  \E w \in Workers :
    /\ cons[w].pc = "got"
    /\ cons[w].coord[1] \in DOMAIN tiles
    /\ cons[w].coord[1] \in Range(installed)
    /\ cons[w].coord[1] \in Range(delivered)
    /\ gui.pc = "idle"

====
